---- MODULE Spec2Model ----
(***************************************************************************)
(* Patient reconciliation over a relational store (app/crud.py).           *)
(*                                                                         *)
(* The store holds the committed rows of the person, patient,              *)
(* medical_condition and call_history tables.  Every request owns one SQLAlchemy session;   *)
(* a session changes the store only at db.commit(), where the store        *)
(* enforces the UNIQUE, NOT NULL and FOREIGN KEY constraints of            *)
(* app/models.py, and db.rollback() discards what was not committed.       *)
(*                                                                         *)
(* Spec     interleaves the store round trips of concurrent requests.      *)
(* SeqSpec  runs every call to completion before the next one starts.      *)
(* CrudSpec runs the per-entity operations, one call at a time.            *)
(* ListSpec fills the tables that get_patients lists.                      *)
(* CallSpec fills the tables that get_call_histories_by_patient lists.     *)
(***************************************************************************)
EXTENDS Integers, FiniteSets, Sequences, TLC

VARIABLES persons, patients, conditions, nextPatientId, calls, nextCallId,
          sess, last

vars == <<persons, patients, conditions, nextPatientId, calls, nextCallId,
          sess, last>>

(* ---------------------------------------------------------------- bounds *)

\* Patient rows ever inserted (a uuid4 primary key is never reused).
MaxPatients == 2

\* Person rows ever inserted.
MaxPersons == 2

\* CallHistory rows ever inserted.
MaxCalls == 2

(* ------------------------------------------------------------ value sets *)

\* Python None, for a nullable string column or an Optional[str] field.
None == "<None>"

\* A field that a partial-update request does not mention.
Unset == "<unset>"

\* No row / no id (Optional[...] is None); real ids start at 1.
NoId == 0

Emails == {"a@x.com", "b@x.com"}

FirstNames == {"John", "Jonathan"}

LastNames == {"Doe", "Roe"}

\* The first and last names a creation request carries.
FullNames == {<<"John", "Doe">>, <<"Jonathan", "Roe">>}

\* Person ids a request may name; the last one is never a row's id.
PersonIds == {1, 2, 3}

Phones == {None, "", "555"}

Statuses == {"active", "inactive"}

\* Medical-condition ids a request may name; SeededConditions exist.
ConditionIds == {1, 2}

SeededConditions == {1}

\* Names of medical conditions; init_db seeds the first.
ConditionNames == {"Glioblastoma", "Fibrosis"}

SeededName == "Glioblastoma"

\* Patient ids a request may name; the last one is never a row's id.
PatientIds == 1..(MaxPatients + 1)

\* Call ids a request may name; the last one is never a row's id.
CallIds == 1..(MaxCalls + 1)

\* CallHistory.outcome, a nullable string.
Outcomes == {None, "booked"}

\* CallHistory.call_date is NULL.
NoDate == 0

\* CallHistory.call_date: NULL, or an instant (a later one is larger).
CallDates == {NoDate, 1, 2}

Sessions == {"s1", "s2"}

\* Variant: "is not None" in place of truthiness, so "" counts as supplied.
TruthyNotNone(v) == v # None

\* Python truthiness of an Optional[str]: None and "" are falsy.
Truthy(v) == v # None /\ v # ""

(* ------------------------------------------------------------------ rows *)

NoPerson ==
    [person_id |-> NoId, first_name |-> "", last_name |-> "", email |-> "",
     phone |-> None, is_active |-> FALSE]

\* models.Person(...) as create_person builds it; is_active defaults to True.
NewPerson(id, req) ==
    [person_id |-> id, first_name |-> req.first_name, last_name |-> req.last_name,
     email |-> req.email, phone |-> req.phone, is_active |-> TRUE]

\* models.Patient(...) as both creation operations build it.
NewPatient(id, person_id, req) ==
    [patient_id |-> id, person_id |-> person_id,
     medical_condition_id |-> req.medical_condition_id, status |-> req.status]

\* models.MedicalCondition(...); is_active defaults to True.
NewCondition(req) == [name |-> req.name, is_active |-> TRUE]

\* models.CallHistory(...) as create_call_history builds it.
NewCall(id, req) ==
    [call_id |-> id, patient_id |-> req.patient_id, pn_id |-> req.pn_id,
     outcome |-> req.outcome, call_date |-> req.call_date]

\* The committed rows, as one value.
Store ==
    [persons |-> persons, patients |-> patients, conditions |-> conditions,
     nextPatientId |-> nextPatientId, calls |-> calls, nextCallId |-> nextCallId]

(* ------------------------------------------------------------ constraints *)

\* Variant: person.email declared without unique=True.
EmailUniqueOff(db, person_id, email) == TRUE

\* person.email is UNIQUE: no other row holds this email.
EmailUnique(db, person_id, email) ==
    \A p \in db.persons : p.email = email => p.person_id = person_id

\* Variant: patient.person_id declared without unique=True.
PersonIdUniqueOff(db, patient_id, person_id) == TRUE

\* patient.person_id is UNIQUE: no other row holds this person_id.
PersonIdUnique(db, patient_id, person_id) ==
    \A q \in db.patients : q.person_id = person_id => q.patient_id = patient_id

\* patient.person_id REFERENCES person, NOT NULL.
PersonFk(db, person_id) == \E p \in db.persons : p.person_id = person_id

\* Variant: patient.medical_condition_id declared nullable and without the
\* foreign key.
ConditionFkOff(db, medical_condition_id) == TRUE

\* patient.medical_condition_id REFERENCES medical_condition, NOT NULL.
ConditionFk(db, medical_condition_id) == medical_condition_id \in DOMAIN db.conditions

(* ---------------------------------------------------------------- lookups *)

get_person(db, person_id) ==
    IF \E p \in db.persons : p.person_id = person_id
    THEN CHOOSE p \in db.persons : p.person_id = person_id
    ELSE NoPerson

get_person_by_email(db, email) ==
    IF \E p \in db.persons : p.email = email
    THEN CHOOSE p \in db.persons : p.email = email
    ELSE NoPerson

\* Variant: the lookup filters on is_active as well.
get_medical_condition_active(db, medical_condition_id) ==
    /\ medical_condition_id \in DOMAIN db.conditions
    /\ db.conditions[medical_condition_id].is_active

\* "if not medical_condition": a row with this id exists, active or not.
get_medical_condition(db, medical_condition_id) ==
    medical_condition_id \in DOMAIN db.conditions

\* "if existing_patient": some patient row has this person_id.
get_patient_by_person_id(db, person_id) ==
    \E q \in db.patients : q.person_id = person_id

get_patient(db, patient_id) ==
    \E q \in db.patients : q.patient_id = patient_id

(* --------------------------------------------------------------- requests *)

\* schemas.PatientCreate: PersonCreate (first and last name of length >= 1,
\* an e-mail address, an optional phone) and the PatientBase fields.
PatientCreate ==
    {[person_id |-> NoId, email |-> e, first_name |-> n[1], last_name |-> n[2],
      phone |-> ph, medical_condition_id |-> c, status |-> "active"] :
        e \in Emails, n \in FullNames, ph \in Phones, c \in ConditionIds}

\* schemas.PatientCreateWithPersonId: a person id and the PatientBase fields.
PatientCreateWithPersonId ==
    [person_id : PersonIds, email : {""}, first_name : {""},
     last_name : {""}, phone : {None},
     medical_condition_id : ConditionIds, status : {"active"}]

\* schemas.PersonCreate alone, as create_person takes it.
PersonCreate ==
    {[person_id |-> NoId, email |-> e, first_name |-> n[1], last_name |-> n[2],
      phone |-> ph, medical_condition_id |-> NoId, status |-> ""] :
        e \in Emails, n \in FullNames, ph \in Phones}

NoRequest ==
    [person_id |-> NoId, email |-> "", first_name |-> "", last_name |-> "",
     phone |-> None, medical_condition_id |-> NoId, status |-> ""]

(* --------------------------------------------------------------- sessions *)

\* What one call holds between two store round trips: the operation, the
\* place in its body, its argument, the Person it loaded (db_person), whether
\* its lookup of the person found a row ("" before the lookup), and the
\* exception it ended with ("ok" when it returned).
IdleSession ==
    [op |-> "", pc |-> "idle", req |-> NoRequest, person |-> NoPerson,
     found |-> "", result |-> ""]

StartSession(op, req) ==
    [op |-> op,
     pc |-> IF op = "create_patient_with_person" THEN "check_condition" ELSE "get_person",
     req |-> req, person |-> NoPerson, found |-> "", result |-> ""]

\* raise: the except clause rolls the session back (nothing uncommitted
\* reaches the store) and the call ends with the exception.
Raise(db, loc, exc) ==
    [db |-> db, loc |-> [loc EXCEPT !.pc = "done", !.result = exc]]

Goto(db, loc, pc) == [db |-> db, loc |-> [loc EXCEPT !.pc = pc]]

(* ------------------------------------------------------------------ steps *)

\* Variant: the condition is looked up but its absence is not raised.
CheckConditionSkipped(db, loc) ==
    Goto(db, loc,
         IF loc.op = "create_patient_with_person" THEN "lookup_email"
         ELSE "duplicate_guard")

\* get_medical_condition and the "if not medical_condition" that follows.
CheckConditionStep(db, loc) ==
    IF ~get_medical_condition(db, loc.req.medical_condition_id)
    THEN Raise(db, loc, "MedicalConditionNotFoundError")
    ELSE Goto(db, loc,
              IF loc.op = "create_patient_with_person" THEN "lookup_email"
              ELSE "duplicate_guard")

\* get_person_by_email and the branch on "if not db_person".
LookupEmailStep(db, loc) ==
    LET p == get_person_by_email(db, loc.req.email) IN
    IF p = NoPerson
    THEN Goto(db, [loc EXCEPT !.found = "missed"], "create_person")
    ELSE Goto(db, [loc EXCEPT !.found = "found", !.person = p], "merge_person")

\* The id a new Person row gets (uuid4: an id no row has).
NewPersonId(db) == Cardinality(db.persons) + 1

\* create_person: add, commit, refresh.  An IntegrityError at the commit is
\* rolled back and raised as DatabaseError, which no except clause of
\* create_patient_with_person catches.
create_person(db, loc) ==
    IF ~EmailUnique(db, NoId, loc.req.email)
    THEN Raise(db, loc, "DatabaseError")
    ELSE LET p == NewPerson(NewPersonId(db), loc.req) IN
         Goto([db EXCEPT !.persons = @ \cup {p}],
              [loc EXCEPT !.person = p], "duplicate_guard")

\* One attribute of the returning-patient merge: "if patient.person.f:
\* db_person.f = patient.person.f".  The session flushes a column only when
\* the value set differs from the value it loaded.
MergeField(loaded, supplied, current) ==
    IF Truthy(supplied) /\ supplied # loaded THEN supplied ELSE current

\* Variant: the merge sets is_active = True on the Person it found.
MergedPersonReactivated(cur, loaded, req) ==
    [cur EXCEPT !.first_name = MergeField(loaded.first_name, req.first_name, @),
                !.last_name = MergeField(loaded.last_name, req.last_name, @),
                !.phone = MergeField(loaded.phone, req.phone, @),
                !.is_active = TRUE]

\* The row the commit of the merge leaves: the UPDATE writes the changed
\* columns of the row with db_person's id.
MergedPerson(cur, loaded, req) ==
    [cur EXCEPT !.first_name = MergeField(loaded.first_name, req.first_name, @),
                !.last_name = MergeField(loaded.last_name, req.last_name, @),
                !.phone = MergeField(loaded.phone, req.phone, @)]

\* Variant: the merged values are computed but never written to the store.
MergePersonUncommitted(db, loc) ==
    LET cur == get_person(db, loc.person.person_id) IN
    Goto(db, [loc EXCEPT !.person = cur], "duplicate_guard")

\* The else branch: merge, db.commit(), db.refresh(db_person).
MergePersonStep(db, loc) ==
    LET cur == get_person(db, loc.person.person_id)
        new == MergedPerson(cur, loc.person, loc.req)
    IN  Goto([db EXCEPT !.persons = (@ \ {cur}) \cup {new}],
             [loc EXCEPT !.person = new], "duplicate_guard")

\* Variant: the person is looked up but a missing row is not raised.
GetPersonUnchecked(db, loc) ==
    LET p == get_person(db, loc.req.person_id) IN
    Goto(db, [loc EXCEPT !.found = IF p = NoPerson THEN "missed" ELSE "found",
                         !.person = p], "check_condition")

\* get_person and "if not db_person" of create_patient_with_existing_person.
GetPersonStep(db, loc) ==
    LET p == get_person(db, loc.req.person_id) IN
    IF p = NoPerson
    THEN Raise(db, [loc EXCEPT !.found = "missed"], "PersonNotFoundError")
    ELSE Goto(db, [loc EXCEPT !.found = "found", !.person = p], "check_condition")

\* Variant: patient.person_id read in both operations.
TargetPersonIdFromRequest(loc) == loc.req.person_id

\* The person the new Patient is for: db_person.person_id, or
\* patient.person_id in create_patient_with_existing_person.
TargetPersonId(loc) ==
    IF loc.op = "create_patient_with_person" THEN loc.person.person_id
    ELSE loc.req.person_id

\* Variant: no duplicate guard before the insert.
DuplicateGuardSkipped(db, loc) == Goto(db, loc, "insert_patient")

\* get_patient_by_person_id and "if existing_patient".
DuplicateGuardStep(db, loc) ==
    IF get_patient_by_person_id(db, TargetPersonId(loc))
    THEN Raise(db, loc, "DuplicatePatientError")
    ELSE Goto(db, loc, "insert_patient")

\* Variant: db.add(db_patient) without db.commit(): the call returns the
\* Patient, and the row is lost when the session closes.
InsertPatientUncommitted(db, loc) ==
    [db |-> db, loc |-> [loc EXCEPT !.pc = "done", !.result = "ok"]]

\* models.Patient(...), add, commit, refresh.  An IntegrityError at the
\* commit is rolled back and raised as DatabaseError.
InsertPatientStep(db, loc) ==
    LET q == NewPatient(db.nextPatientId, TargetPersonId(loc), loc.req) IN
    IF /\ PersonIdUnique(db, q.patient_id, q.person_id)
       /\ PersonFk(db, q.person_id)
       /\ ConditionFk(db, q.medical_condition_id)
    THEN [db |-> [db EXCEPT !.patients = @ \cup {q}, !.nextPatientId = @ + 1],
          loc |-> [loc EXCEPT !.pc = "done", !.result = "ok"]]
    ELSE Raise(db, loc, "DatabaseError")

\* The next store round trip of a call.
Step(db, loc) ==
    CASE loc.pc = "check_condition" -> CheckConditionStep(db, loc)
      [] loc.pc = "lookup_email"    -> LookupEmailStep(db, loc)
      [] loc.pc = "create_person"   -> create_person(db, loc)
      [] loc.pc = "merge_person"    -> MergePersonStep(db, loc)
      [] loc.pc = "get_person"      -> GetPersonStep(db, loc)
      [] loc.pc = "duplicate_guard" -> DuplicateGuardStep(db, loc)
      [] loc.pc = "insert_patient"  -> InsertPatientStep(db, loc)
      [] OTHER                      -> [db |-> db, loc |-> loc]

\* A call run to its end with no other request in between.
RECURSIVE Run(_, _)
Run(db, loc) ==
    IF loc.pc \in {"done", "idle"} THEN [db |-> db, loc |-> loc]
    ELSE LET r == Step(db, loc) IN Run(r.db, r.loc)

create_patient_with_person(db, req) ==
    Run(db, StartSession("create_patient_with_person", req))

create_patient_with_existing_person(db, req) ==
    Run(db, StartSession("create_patient_with_existing_person", req))

(* ----------------------------------------------------------------- routes *)

\* Variant: the duplicate answered as the docstring of create_patient says
\* ("400 if validation fails or patient already exists").
RouteStatusDuplicateAs400(result) ==
    CASE result = "ok"                            -> 201
      [] result = "DuplicatePatientError"         -> 400
      [] result = "MedicalConditionNotFoundError" -> 404
      [] result = "PersonNotFoundError"           -> 404
      [] result = "PatientNotFoundError"          -> 404
      [] OTHER                                    -> 500

\* The status the routes create_patient, create_patient_with_person_id and
\* create_call_history answer with: 201 when the operation returns, and the
\* status of the except clause that catches what it raises.
RouteStatus(result) ==
    CASE result = "ok"                            -> 201
      [] result = "DuplicatePatientError"         -> 409
      [] result = "MedicalConditionNotFoundError" -> 404
      [] result = "PersonNotFoundError"           -> 404
      [] result = "PatientNotFoundError"          -> 404
      [] OTHER                                    -> 500

\* What the database driver says of a refused statement.
DriverText == "violates constraint"

\* str(e) of the exception that operation op raised, as a sequence of
\* parts: the message given to the exception's constructor.
ExceptionText(op, result) ==
    CASE result = "DuplicatePatientError"         -> <<"Patient already exists for person">>
      [] result = "MedicalConditionNotFoundError" -> <<"Medical condition not found">>
      [] result = "PersonNotFoundError"           -> <<"Person not found">>
      [] result = "PatientNotFoundError"          -> <<"Patient not found">>
      [] result = "DatabaseError" /\ op = "create_person" ->
            <<"Failed to create person: duplicate email or constraint violation">>
      [] result = "DatabaseError" /\ op = "create_call_history" ->
            <<"Database operation failed: ", DriverText>>
      [] result = "DatabaseError" ->
            <<"Failed to create patient: constraint violation">>
      [] OTHER -> <<DriverText>>

\* The detail of the HTTPException a route raises for DatabaseError.
GenericDetail(op) ==
    IF op = "create_call_history"
    THEN <<"Failed to create call history due to database error">>
    ELSE <<"Failed to create patient due to database error">>

\* The detail a route answers with when operation op raised result inside
\* it: str(e), or the fixed text for DatabaseError.
RouteDetail(route, op, result) ==
    IF result = "DatabaseError" THEN GenericDetail(route)
    ELSE ExceptionText(op, result)

\* The operation that raised what session loc ended with: create_person
\* when create_patient_with_person fails before it holds a Person.
RaisedBy(loc) ==
    IF /\ loc.op = "create_patient_with_person"
       /\ loc.result = "DatabaseError"
       /\ loc.person = NoPerson
    THEN "create_person" ELSE loc.op

(* ------------------------------------------------------------- validation *)

\* E-mail addresses as text: local part, "@", domain; or no "@" at all.
RawEmails == {<<"a", "@", "x.com">>, <<"b", "@", "x.com">>, <<"invalid-email">>}

\* First and last names as text; a first name may be empty.
RawNames == FullNames \cup {<<"", "Doe">>}

\* Ids as text; UuidOf holds the well-formed ones.
RawIds == {"1", "2", "invalid-uuid"}

UuidOf == [t \in {"1", "2", "3"} |-> IF t = "1" THEN 1 ELSE IF t = "2" THEN 2 ELSE 3]

\* The JSON bodies of POST /patients; status is left out and defaults.
RawPatientCreate ==
    {[person |-> [first_name |-> n[1], last_name |-> n[2], email |-> e, phone |-> ph],
      medical_condition_id |-> c] :
        n \in RawNames, e \in RawEmails, ph \in Phones, c \in RawIds}

\* EmailStr: a local part, "@" and a domain, none of them empty.
IsEmail(t) == Len(t) = 3 /\ t[1] # "" /\ t[2] = "@" /\ t[3] # ""

\* UUID: the text of an id.
IsUuid(t) == t \in DOMAIN UuidOf

\* Variant: first_name and last_name declared without min_length=1.
ValidPatientCreateNoMinLength(raw) ==
    /\ IsEmail(raw.person.email)
    /\ IsUuid(raw.medical_condition_id)

\* Whether the body parses as schemas.PatientCreate: names of length >= 1,
\* an e-mail address, a UUID.
ValidPatientCreate(raw) ==
    /\ Len(raw.person.first_name) >= 1
    /\ Len(raw.person.last_name) >= 1
    /\ IsEmail(raw.person.email)
    /\ IsUuid(raw.medical_condition_id)

\* The schemas.PatientCreate a valid body parses to; status defaults to
\* "active".
ParsePatientCreate(raw) ==
    [person_id |-> NoId,
     email |-> raw.person.email[1] \o raw.person.email[2] \o raw.person.email[3],
     first_name |-> raw.person.first_name, last_name |-> raw.person.last_name,
     phone |-> raw.person.phone,
     medical_condition_id |-> UuidOf[raw.medical_condition_id],
     status |-> "active"]

\* The route create_patient (POST /patients): the framework answers 422 to
\* a body that does not parse, before the route function and its session
\* exist; otherwise create_patient_with_person runs.
create_patient(db, raw) ==
    IF ~ValidPatientCreate(raw)
    THEN [status |-> 422, db |-> db, loc |-> IdleSession]
    ELSE LET r == create_patient_with_person(db, ParsePatientCreate(raw)) IN
         [status |-> RouteStatus(r.loc.result), db |-> r.db, loc |-> r.loc]

(* -------------------------------------------------------- partial updates *)

\* schemas.PersonUpdate after model_dump(exclude_unset=True): the fields the
\* request names (fields) and their values.
PersonUpdateOf(fields, first_name, last_name, email, phone, is_active) ==
    [fields |-> fields, first_name |-> first_name, last_name |-> last_name,
     email |-> email, phone |-> phone, is_active |-> is_active]

\* Updates naming no field, one field (every Optional field may be an
\* explicit null) or two fields.
PersonUpdates ==
    {PersonUpdateOf({}, "", "", "", None, TRUE)}
    \cup {PersonUpdateOf({"first_name"}, v, "", "", None, TRUE) :
             v \in FirstNames \cup {None}}
    \cup {PersonUpdateOf({"last_name"}, "", v, "", None, TRUE) : v \in LastNames}
    \cup {PersonUpdateOf({"email"}, "", "", v, None, TRUE) : v \in Emails}
    \cup {PersonUpdateOf({"phone"}, "", "", "", v, TRUE) : v \in Phones}
    \cup {PersonUpdateOf({"is_active"}, "", "", "", None, v) : v \in BOOLEAN}
    \cup {PersonUpdateOf({"first_name", "phone"}, v, "", "", w, TRUE) :
             v \in FirstNames, w \in Phones}

\* Variant: model_dump(exclude_none=True), so an explicit null is dropped.
ApplyPersonUpdateExcludeNone(cur, upd) ==
    [cur EXCEPT
       !.first_name = IF "first_name" \in upd.fields /\ upd.first_name # None
                      THEN upd.first_name ELSE @,
       !.last_name = IF "last_name" \in upd.fields /\ upd.last_name # None
                     THEN upd.last_name ELSE @,
       !.email = IF "email" \in upd.fields /\ upd.email # None THEN upd.email ELSE @,
       !.phone = IF "phone" \in upd.fields /\ upd.phone # None THEN upd.phone ELSE @,
       !.is_active = IF "is_active" \in upd.fields THEN upd.is_active ELSE @]

\* "for field, value in update_data.items(): setattr(db_person, field, value)".
ApplyPersonUpdate(cur, upd) ==
    [cur EXCEPT
       !.first_name = IF "first_name" \in upd.fields THEN upd.first_name ELSE @,
       !.last_name = IF "last_name" \in upd.fields THEN upd.last_name ELSE @,
       !.email = IF "email" \in upd.fields THEN upd.email ELSE @,
       !.phone = IF "phone" \in upd.fields THEN upd.phone ELSE @,
       !.is_active = IF "is_active" \in upd.fields THEN upd.is_active ELSE @]

\* update_person: None for a missing id; otherwise the commit of the changed
\* row, which the store refuses (IntegrityError, not caught here; get_db
\* rolls back) when it breaks a constraint of the person table.
update_person(db, person_id, upd) ==
    LET cur == get_person(db, person_id)
        new == ApplyPersonUpdate(cur, upd)
    IN  IF cur = NoPerson THEN [db |-> db, result |-> "None"]
        ELSE IF /\ EmailUnique(db, person_id, new.email)
                /\ new.first_name # None /\ new.last_name # None /\ new.email # None
        THEN [db |-> [db EXCEPT !.persons = (@ \ {cur}) \cup {new}], result |-> "ok"]
        ELSE [db |-> db, result |-> "IntegrityError"]

\* schemas.PatientUpdate after model_dump(exclude_unset=True); a
\* medical_condition_id of NoId is an explicit null.
PatientUpdates ==
    [fields : {{}}, medical_condition_id : {NoId}, status : {"active"}]
    \cup [fields : {{"medical_condition_id"}},
          medical_condition_id : ConditionIds \cup {NoId}, status : {"active"}]
    \cup [fields : {{"status"}}, medical_condition_id : {NoId}, status : Statuses]

\* The keys a body sent to PUT /patients/{id} may hold: fields that
\* PatientUpdate declares, and columns of patient that it does not.
PatientBodyKeys == {"medical_condition_id", "status", "person_id", "patient_id"}

PatientUpdateBodies ==
    [keys : SUBSET PatientBodyKeys, medical_condition_id : ConditionIds \cup {NoId},
     status : {"inactive"}, person_id : PersonIds, patient_id : PatientIds]

\* Variant: PatientUpdate with extra="allow", which keeps undeclared keys.
PatientUpdateAllowingExtra(body) ==
    [fields |-> body.keys,
     medical_condition_id |-> body.medical_condition_id, status |-> body.status,
     person_id |-> body.person_id, patient_id |-> body.patient_id]

\* schemas.PatientUpdate built from a body and dumped with
\* exclude_unset=True: the declared fields the body holds; a key that
\* PatientUpdate does not declare is ignored.
PatientUpdateOf(body) ==
    [fields |-> body.keys \cap {"medical_condition_id", "status"},
     medical_condition_id |-> body.medical_condition_id, status |-> body.status,
     person_id |-> NoId, patient_id |-> NoId]

\* setattr(db_patient, field, value) for each field of the update.
\* PatientUpdate has no person_id and no patient_id: neither can be set.
ApplyPatientUpdate(cur, upd) ==
    [cur EXCEPT
       !.medical_condition_id =
           IF "medical_condition_id" \in upd.fields THEN upd.medical_condition_id ELSE @,
       !.status = IF "status" \in upd.fields THEN upd.status ELSE @,
       !.person_id = IF "person_id" \in upd.fields THEN upd.person_id ELSE @,
       !.patient_id = IF "patient_id" \in upd.fields THEN upd.patient_id ELSE @]

\* update_patient: None for a missing id; otherwise the commit of the changed
\* row, refused by the store when medical_condition_id is null or dangling.
update_patient(db, patient_id, upd) ==
    IF ~get_patient(db, patient_id) THEN [db |-> db, result |-> "None"]
    ELSE LET cur == CHOOSE q \in db.patients : q.patient_id = patient_id
             new == ApplyPatientUpdate(cur, upd)
         IN  IF /\ ConditionFk(db, new.medical_condition_id)
                /\ PersonIdUnique(db, patient_id, new.person_id)
             THEN [db |-> [db EXCEPT !.patients = (@ \ {cur}) \cup {new}],
                   result |-> "ok"]
             ELSE [db |-> db, result |-> "IntegrityError"]

\* Variant: call_history.patient_id declared without the foreign key.
PatientReferencedOff(db, patient_id) == FALSE

\* call_history.patient_id REFERENCES patient, NOT NULL, and the
\* call_histories relationship has no delete cascade: a patient that
\* call-history rows refer to cannot be deleted.
PatientReferenced(db, patient_id) ==
    \E c \in db.calls : c.patient_id = patient_id

\* Variant: the row is kept and its status set, as for Person.
delete_patient_soft(db, patient_id) ==
    IF ~get_patient(db, patient_id) THEN [db |-> db, result |-> "False"]
    ELSE [db |-> [db EXCEPT !.patients =
                     {IF q.patient_id = patient_id
                      THEN [q EXCEPT !.status = "inactive"] ELSE q : q \in @}],
          result |-> "True"]

\* delete_patient: False for a missing id; otherwise db.delete and the
\* commit, which the store refuses (IntegrityError, not caught here) while
\* call-history rows refer to the patient.
delete_patient(db, patient_id) ==
    IF ~get_patient(db, patient_id) THEN [db |-> db, result |-> "False"]
    ELSE IF PatientReferenced(db, patient_id)
    THEN [db |-> db, result |-> "IntegrityError"]
    ELSE [db |-> [db EXCEPT !.patients = {q \in @ : q.patient_id # patient_id}],
          result |-> "True"]

\* Variant: db.delete(db_person) in place of the flag.
delete_person_hard(db, person_id) ==
    IF get_person(db, person_id) = NoPerson THEN [db |-> db, result |-> "False"]
    ELSE [db |-> [db EXCEPT !.persons = {p \in @ : p.person_id # person_id}],
          result |-> "True"]

\* delete_person: False for a missing id; otherwise is_active = False.
delete_person(db, person_id) ==
    LET cur == get_person(db, person_id) IN
    IF cur = NoPerson THEN [db |-> db, result |-> "False"]
    ELSE [db |-> [db EXCEPT !.persons =
                     (@ \ {cur}) \cup {[cur EXCEPT !.is_active = FALSE]}],
          result |-> "True"]

(* ----------------------------------------------------- medical conditions *)

\* schemas.MedicalConditionCreate: a name of length >= 1.
MedicalConditionCreate == [name : ConditionNames]

\* medical_condition.name is UNIQUE.
NameUnique(db, medical_condition_id, name) ==
    \A c \in DOMAIN db.conditions :
        db.conditions[c].name = name => c = medical_condition_id

\* The id a new MedicalCondition row gets (uuid4: an id no row has; rows of
\* this table are never removed).
NewConditionId(db) == Cardinality(DOMAIN db.conditions) + 1

\* create_medical_condition: add, commit, refresh; an IntegrityError at the
\* commit is rolled back and raised as DatabaseError.
create_medical_condition(db, req) ==
    IF ~NameUnique(db, NoId, req.name)
    THEN [db |-> db, result |-> "DatabaseError"]
    ELSE [db |-> [db EXCEPT !.conditions =
                     [c \in DOMAIN @ \cup {NewConditionId(db)} |->
                         IF c \in DOMAIN @ THEN @[c] ELSE NewCondition(req)]],
          result |-> "ok"]

\* schemas.MedicalConditionUpdate after model_dump(exclude_unset=True); a
\* name of None is an explicit null.
MedicalConditionUpdates ==
    [fields : {{}}, name : {None}, is_active : {TRUE}]
    \cup [fields : {{"name"}}, name : ConditionNames \cup {None}, is_active : {TRUE}]
    \cup [fields : {{"is_active"}}, name : {None}, is_active : BOOLEAN]
    \cup [fields : {{"name", "is_active"}}, name : ConditionNames, is_active : BOOLEAN]

ApplyConditionUpdate(cur, upd) ==
    [cur EXCEPT
       !.name = IF "name" \in upd.fields THEN upd.name ELSE @,
       !.is_active = IF "is_active" \in upd.fields THEN upd.is_active ELSE @]

\* update_medical_condition: None for a missing id; otherwise the commit of
\* the changed row; an IntegrityError is rolled back and raised as
\* DatabaseError.
update_medical_condition(db, medical_condition_id, upd) ==
    IF ~get_medical_condition(db, medical_condition_id)
    THEN [db |-> db, result |-> "None"]
    ELSE LET new == ApplyConditionUpdate(db.conditions[medical_condition_id], upd) IN
         IF new.name # None /\ NameUnique(db, medical_condition_id, new.name)
         THEN [db |-> [db EXCEPT !.conditions[medical_condition_id] = new],
               result |-> "ok"]
         ELSE [db |-> db, result |-> "DatabaseError"]

\* delete_medical_condition: False for a missing id; otherwise
\* is_active = False.
delete_medical_condition(db, medical_condition_id) ==
    IF ~get_medical_condition(db, medical_condition_id)
    THEN [db |-> db, result |-> "False"]
    ELSE [db |-> [db EXCEPT !.conditions[medical_condition_id].is_active = FALSE],
          result |-> "True"]

(* ------------------------------------------------------------ call history *)

\* CallHistory.pn_id: an optional person id (NoId is null).
NavigatorIds == {NoId} \cup PersonIds

\* schemas.CallHistoryCreate: a patient id, an optional navigator, an
\* optional outcome, an optional call date.
CallHistoryCreate ==
    [patient_id : PatientIds, pn_id : NavigatorIds, outcome : Outcomes,
     call_date : CallDates]

\* The requests that carry no call date.
UndatedCalls == {req \in CallHistoryCreate : req.call_date = NoDate}

get_call_history(db, call_id) == \E c \in db.calls : c.call_id = call_id

\* call_history.pn_id REFERENCES person, nullable.
NavigatorFk(db, pn_id) == pn_id = NoId \/ PersonFk(db, pn_id)

\* Variant: no lookup of the patient; the store's foreign key refuses the row.
create_call_history_unchecked(db, req) ==
    IF ~get_patient(db, req.patient_id) \/ ~NavigatorFk(db, req.pn_id)
    THEN [db |-> db, result |-> "DatabaseError"]
    ELSE [db |-> [db EXCEPT !.calls = @ \cup {NewCall(db.nextCallId, req)},
                            !.nextCallId = @ + 1],
          result |-> "ok"]

\* Variant: the new row takes the place of the patient's earlier rows.
create_call_history_overwriting(db, req) ==
    IF ~get_patient(db, req.patient_id)
    THEN [db |-> db, result |-> "PatientNotFoundError"]
    ELSE IF ~NavigatorFk(db, req.pn_id)
    THEN [db |-> db, result |-> "DatabaseError"]
    ELSE [db |-> [db EXCEPT
                    !.calls = {c \in @ : c.patient_id # req.patient_id}
                              \cup {NewCall(db.nextCallId, req)},
                    !.nextCallId = @ + 1],
          result |-> "ok"]

\* create_call_history: PatientNotFoundError for a missing patient;
\* otherwise add, commit, refresh; an error at the commit is rolled back and
\* raised as DatabaseError.
create_call_history(db, req) ==
    IF ~get_patient(db, req.patient_id)
    THEN [db |-> db, result |-> "PatientNotFoundError"]
    ELSE IF ~NavigatorFk(db, req.pn_id)
    THEN [db |-> db, result |-> "DatabaseError"]
    ELSE [db |-> [db EXCEPT !.calls = @ \cup {NewCall(db.nextCallId, req)},
                            !.nextCallId = @ + 1],
          result |-> "ok"]

\* schemas.CallHistoryUpdate after model_dump(exclude_unset=True); it has
\* no call_id and no patient_id.
CallHistoryUpdates ==
    [fields : SUBSET {"pn_id", "outcome"}, pn_id : NavigatorIds, outcome : Outcomes]

ApplyCallUpdate(cur, upd) ==
    [cur EXCEPT
       !.pn_id = IF "pn_id" \in upd.fields THEN upd.pn_id ELSE @,
       !.outcome = IF "outcome" \in upd.fields THEN upd.outcome ELSE @]

\* update_call_history: None for a missing id; otherwise the commit of the
\* changed row, refused by the store (IntegrityError, not caught here) when
\* pn_id is dangling.
update_call_history(db, call_id, upd) ==
    IF ~get_call_history(db, call_id) THEN [db |-> db, result |-> "None"]
    ELSE LET cur == CHOOSE c \in db.calls : c.call_id = call_id
             new == ApplyCallUpdate(cur, upd)
         IN  IF NavigatorFk(db, new.pn_id)
             THEN [db |-> [db EXCEPT !.calls = (@ \ {cur}) \cup {new}],
                   result |-> "ok"]
             ELSE [db |-> db, result |-> "IntegrityError"]

\* delete_call_history: False for a missing id; otherwise the row is removed.
delete_call_history(db, call_id) ==
    IF ~get_call_history(db, call_id) THEN [db |-> db, result |-> "False"]
    ELSE [db |-> [db EXCEPT !.calls = {c \in @ : c.call_id # call_id}],
          result |-> "True"]

(* ------------------------------------------------------------------ lists *)

\* The orders in which the store may return the rows of S when the query
\* does not order them: every sequence that holds each row once.
Orderings(S) ==
    {rows \in [1..Cardinality(S) -> S] :
        \A i, j \in 1..Cardinality(S) : rows[i] = rows[j] => i = j}

\* query.offset(skip).limit(limit).all() over the rows in the order returned.
Window(rows, skip, limit) ==
    SubSeq(rows, skip + 1, IF skip + limit < Len(rows) THEN skip + limit ELSE Len(rows))

\* The status a list request may filter by: none, empty, or a status.
StatusFilters == {None, ""} \cup Statuses

\* The medical condition a list request may filter by: none, or an id.
ConditionFilters == {NoId} \cup ConditionIds

\* skip and limit as the operations of crud.py may be called.
Skips == 0..3

Limits == 0..3

\* Variant: the count taken after offset and limit.
get_patients_counting_page(db, skip, limit, status, medical_condition_id) ==
    LET query == {q \in db.patients :
                     /\ Truthy(status) => q.status = status
                     /\ medical_condition_id # NoId =>
                            q.medical_condition_id = medical_condition_id}
    IN  {[patients |-> Window(rows, skip, limit),
          total |-> Len(Window(rows, skip, limit))] : rows \in Orderings(query)}

\* get_patients: the filters that are truthy narrow the query; the count is
\* taken before offset and limit; the query has no ORDER BY, so each order
\* of the matching rows is a possible outcome.
get_patients(db, skip, limit, status, medical_condition_id) ==
    LET query == {q \in db.patients :
                     /\ Truthy(status) => q.status = status
                     /\ medical_condition_id # NoId =>
                            q.medical_condition_id = medical_condition_id}
    IN  {[patients |-> Window(rows, skip, limit),
          total |-> Cardinality(query)] : rows \in Orderings(query)}

\* Variant: integer division in place of ceil.
ceil_truncating(total, limit) == total \div limit

\* math.ceil(total / limit) for a non-negative total and a positive limit.
ceil(total, limit) ==
    IF total % limit = 0 THEN total \div limit ELSE (total \div limit) + 1

\* skip and limit as a client may send them: Query(0, ge=0) and
\* Query(100, ge=1, le=1000).
QuerySkips == {-1} \cup Skips

QueryLimits == Limits \cup {1000, 1001}

\* The answer to a list request that the validation layer rejects.
Unprocessable ==
    [status |-> 422, items |-> <<>>, total |-> 0, page |-> 0, page_size |-> 0,
     total_pages |-> 0]

\* read_patients: skip and limit are validated, then get_patients and the
\* PatientListResponse envelope.
read_patients(db, skip, limit, status, medical_condition_id) ==
    IF skip < 0 \/ limit < 1 \/ limit > 1000 THEN {Unprocessable}
    ELSE {[status |-> 200, items |-> r.patients, total |-> r.total,
           page |-> IF limit > 0 THEN (skip \div limit) + 1 ELSE 1,
           page_size |-> limit,
           total_pages |-> IF limit > 0 THEN ceil(r.total, limit) ELSE 0] :
             r \in get_patients(db, skip, limit, status, medical_condition_id)}

\* Variant: call_date.desc() alone, which PostgreSQL sorts NULLS FIRST.
call_date_desc(a, b) ==
    a.call_date # b.call_date /\ (a.call_date = NoDate \/
        (b.call_date # NoDate /\ a.call_date > b.call_date))

\* call_date.desc().nulls_last(): a sorts strictly before b.
call_date_desc_nulls_last(a, b) ==
    a.call_date # NoDate /\ (b.call_date = NoDate \/ a.call_date > b.call_date)

\* get_call_histories_by_patient: the patient's rows by ORDER BY call_date
\* DESC NULLS LAST; rows that compare equal come in any order; the count is
\* taken before offset and limit.
get_call_histories_by_patient(db, patient_id, skip, limit) ==
    LET query == {c \in db.calls : c.patient_id = patient_id}
        ordered == {rows \in Orderings(query) :
                       \A i, j \in DOMAIN rows :
                           i < j => ~call_date_desc_nulls_last(rows[j], rows[i])}
    IN  {[calls |-> Window(rows, skip, limit),
          total |-> Cardinality(query)] : rows \in ordered}

(* ------------------------------------------------------------------ state *)

\* The store after init_db (one seeded medical condition stands for the
\* seeded rows), no request in progress.
Init ==
    /\ persons = {}
    /\ patients = {}
    /\ conditions = [c \in SeededConditions |-> NewCondition([name |-> SeededName])]
    /\ nextPatientId = 1
    /\ calls = {}
    /\ nextCallId = 1
    /\ sess = [s \in Sessions |-> IdleSession]
    /\ last = [op |-> "", result |-> "", found |-> "", personWritten |-> FALSE]

\* The store takes the value db; the model stops creating rows at its bounds.
Commit(db) ==
    /\ db.nextPatientId <= MaxPatients + 1
    /\ Cardinality(db.persons) <= MaxPersons
    /\ db.nextCallId <= MaxCalls + 1
    /\ persons' = db.persons
    /\ patients' = db.patients
    /\ conditions' = db.conditions
    /\ nextPatientId' = db.nextPatientId
    /\ calls' = db.calls
    /\ nextCallId' = db.nextCallId

\* The last call that ran to completion, for the calls of SeqSpec: what it
\* was, how it ended, whether its lookup of the person found a row, and
\* whether it left the person table changed.
Observe(seq, op, r, found) ==
    last' = IF seq
            THEN [op |-> op, result |-> r.result, found |-> found,
                  personWritten |-> r.db.persons # persons]
            ELSE last

(* ------------------------------------------- calls that are one round trip *)

\* The updates that move a person to another e-mail, and the empty update.
EmailUpdates == {upd \in PersonUpdates : upd.fields \subseteq {"email"}}

UpdatePerson(seq) ==
    \E id \in PersonIds, upd \in EmailUpdates :
        LET r == update_person(Store, id, upd) IN
        /\ Commit(r.db)
        /\ Observe(seq, "update_person", r, "")
        /\ UNCHANGED sess

\* The updates of the status, and the empty update.
StatusUpdates == {upd \in PatientUpdates : upd.fields \subseteq {"status"}}

UpdatePatient(seq) ==
    \E id \in PatientIds, upd \in StatusUpdates :
        LET r == update_patient(Store, id, upd) IN
        /\ Commit(r.db)
        /\ Observe(seq, "update_patient", r, "")
        /\ UNCHANGED sess

DeletePatient(seq) ==
    \E id \in PatientIds :
        LET r == delete_patient(Store, id) IN
        /\ Commit(r.db)
        /\ Observe(seq, "delete_patient", r, "")
        /\ UNCHANGED sess

(* ------------------------------------------------ SeqSpec: one call at a time *)

\* The bodies posted in SeqSpec: every well-formed one, and the malformed
\* ones that carry no phone.
PostedBodies ==
    {raw \in RawPatientCreate :
        raw.person.phone = None \/ ValidPatientCreate(raw)}

\* POST /patients with any body: rejected, or create_patient_with_person.
CreatePatientWithPerson ==
    \E raw \in PostedBodies :
        LET r == create_patient(Store, raw) IN
        /\ Commit(r.db)
        /\ IF r.status = 422
           THEN Observe(TRUE, "create_patient",
                        [db |-> r.db, result |-> "RequestValidationError"], "")
           ELSE Observe(TRUE, "create_patient_with_person",
                        [db |-> r.db, result |-> r.loc.result], r.loc.found)
        /\ UNCHANGED sess

CreatePatientByPersonId(seq, reqs) ==
    \E req \in reqs :
        LET r == create_patient_with_existing_person(Store, req) IN
        /\ Commit(r.db)
        /\ Observe(seq, "create_patient_with_existing_person",
                   [db |-> r.db, result |-> r.loc.result], r.loc.found)
        /\ UNCHANGED sess

CreatePatientWithExistingPerson ==
    CreatePatientByPersonId(TRUE, PatientCreateWithPersonId)

\* create_person called on its own with a request of reqs: a Person with
\* no Patient.
CreatePersonFrom(seq, reqs) ==
    \E req \in reqs :
        LET r == create_person(Store, [IdleSession EXCEPT !.req = req]) IN
        /\ Commit(r.db)
        /\ Observe(seq, "create_person",
                   [db |-> r.db,
                    result |-> IF r.loc.pc = "done" THEN r.loc.result ELSE "ok"], "")
        /\ UNCHANGED sess

CreatePersonAlone == CreatePersonFrom(TRUE, PersonCreate)

SeqNext ==
    \/ CreatePersonAlone
    \/ CreatePatientWithPerson
    \/ CreatePatientWithExistingPerson
    \/ UpdatePerson(TRUE)
    \/ DeletePatient(TRUE)

SeqSpec == Init /\ [][SeqNext]_vars

(* ------------------------------------- CrudSpec: the per-entity operations *)

\* The person requests of CrudSpec: one name, no phone.
CrudPersonCreate ==
    {req \in PersonCreate :
        req.first_name = "John" /\ req.last_name = "Doe" /\ req.phone = None}

\* The patient requests of CrudSpec: the seeded medical condition.
CrudPatientCreate ==
    {req \in PatientCreateWithPersonId : req.medical_condition_id \in SeededConditions}

\* The call requests of CrudSpec: no outcome and no call date yet; no
\* navigator, or one that is never a row.
CrudCallCreate ==
    {req \in UndatedCalls : req.pn_id \in {NoId, 3} /\ req.outcome = None}

\* The call updates of CrudSpec: the outcome, or no field.
CrudCallUpdates ==
    {upd \in CallHistoryUpdates :
        upd.fields \subseteq {"outcome"} /\ upd.pn_id = NoId}

\* The condition updates of CrudSpec: one field, or none.
CrudConditionUpdates ==
    {upd \in MedicalConditionUpdates : Cardinality(upd.fields) <= 1}

DeletePerson ==
    \E id \in PersonIds :
        LET r == delete_person(Store, id) IN
        /\ Commit(r.db)
        /\ UNCHANGED <<sess, last>>

UpdateMedicalCondition ==
    \E id \in ConditionIds, upd \in CrudConditionUpdates :
        LET r == update_medical_condition(Store, id, upd) IN
        /\ Commit(r.db)
        /\ UNCHANGED <<sess, last>>

DeleteMedicalCondition ==
    \E id \in ConditionIds :
        LET r == delete_medical_condition(Store, id) IN
        /\ Commit(r.db)
        /\ UNCHANGED <<sess, last>>

CreateCallHistory ==
    \E req \in CrudCallCreate :
        LET r == create_call_history(Store, req) IN
        /\ Commit(r.db)
        /\ UNCHANGED <<sess, last>>

UpdateCallHistory ==
    \E id \in CallIds, upd \in CrudCallUpdates :
        LET r == update_call_history(Store, id, upd) IN
        /\ Commit(r.db)
        /\ UNCHANGED <<sess, last>>

DeleteCallHistory ==
    \E id \in CallIds :
        LET r == delete_call_history(Store, id) IN
        /\ Commit(r.db)
        /\ UNCHANGED <<sess, last>>

CrudNext ==
    \/ CreatePersonFrom(FALSE, CrudPersonCreate)
    \/ DeletePerson
    \/ UpdateMedicalCondition
    \/ DeleteMedicalCondition
    \/ CreatePatientByPersonId(FALSE, CrudPatientCreate)
    \/ DeletePatient(FALSE)
    \/ CreateCallHistory
    \/ UpdateCallHistory
    \/ DeleteCallHistory

CrudSpec == Init /\ [][CrudNext]_vars

(* ------------------------------------- ListSpec: the patients that are listed *)

\* The call requests of CallSpec: any call date, no navigator, no outcome.
ListCallCreate ==
    {req \in CallHistoryCreate : req.pn_id = NoId /\ req.outcome = None}

CreateMedicalCondition ==
    \E req \in MedicalConditionCreate :
        LET r == create_medical_condition(Store, req) IN
        /\ Commit(r.db)
        /\ UNCHANGED <<sess, last>>

\* update_patient with any PatientUpdate.
UpdatePatientFields ==
    \E id \in PatientIds, upd \in PatientUpdates :
        LET r == update_patient(Store, id, upd) IN
        /\ Commit(r.db)
        /\ UNCHANGED <<sess, last>>

ListNext ==
    \/ CreatePersonFrom(FALSE, CrudPersonCreate)
    \/ DeletePerson
    \/ CreateMedicalCondition
    \/ DeleteMedicalCondition
    \/ CreatePatientByPersonId(FALSE, PatientCreateWithPersonId)
    \/ UpdatePatientFields
    \/ DeletePatient(FALSE)

ListSpec == Init /\ [][ListNext]_vars

(* --------------------------------------- CallSpec: the calls of the patients *)

CreateDatedCall ==
    \E req \in ListCallCreate :
        LET r == create_call_history(Store, req) IN
        /\ Commit(r.db)
        /\ UNCHANGED <<sess, last>>

CallNext ==
    \/ CreatePersonFrom(FALSE, CrudPersonCreate)
    \/ CreatePatientByPersonId(FALSE, CrudPatientCreate)
    \/ DeletePatient(FALSE)
    \/ CreateDatedCall
    \/ DeleteCallHistory

CallSpec == Init /\ [][CallNext]_vars

(* ------------------------------------------ Spec: interleaved round trips *)

\* The requests of the interleaved runs: the person's names and phone do not
\* matter to a race on the e-mail or on the person id.
RacePatientCreate ==
    {req \in PatientCreate :
        req.first_name = "John" /\ req.last_name = "Doe" /\ req.phone = None}

RacePatientCreateWithPersonId ==
    {req \in PatientCreateWithPersonId : req.person_id \in {1, 2}}

Begin(s) ==
    /\ sess[s].pc = "idle"
    /\ \E op \in {"create_patient_with_person", "create_patient_with_existing_person"} :
         \E req \in IF op = "create_patient_with_person"
                    THEN RacePatientCreate ELSE RacePatientCreateWithPersonId :
            sess' = [sess EXCEPT ![s] = StartSession(op, req)]
    /\ UNCHANGED <<persons, patients, conditions, nextPatientId, calls, nextCallId, last>>

\* Session s has made the round trip with outcome r.
Becomes(s, r) ==
    /\ Commit(r.db)
    /\ sess' = [sess EXCEPT ![s] = r.loc]
    /\ UNCHANGED last

CheckCondition(s) ==
    /\ sess[s].pc = "check_condition"
    /\ Becomes(s, CheckConditionStep(Store, sess[s]))

LookupEmail(s) ==
    /\ sess[s].pc = "lookup_email"
    /\ Becomes(s, LookupEmailStep(Store, sess[s]))

CreatePerson(s) ==
    /\ sess[s].pc = "create_person"
    /\ Becomes(s, create_person(Store, sess[s]))

MergePerson(s) ==
    /\ sess[s].pc = "merge_person"
    /\ Becomes(s, MergePersonStep(Store, sess[s]))

GetPerson(s) ==
    /\ sess[s].pc = "get_person"
    /\ Becomes(s, GetPersonStep(Store, sess[s]))

DuplicateGuard(s) ==
    /\ sess[s].pc = "duplicate_guard"
    /\ Becomes(s, DuplicateGuardStep(Store, sess[s]))

InsertPatient(s) ==
    /\ sess[s].pc = "insert_patient"
    /\ Becomes(s, InsertPatientStep(Store, sess[s]))

\* The route answers and get_db closes the session.
Respond(s) ==
    /\ sess[s].pc = "done"
    /\ sess' = [sess EXCEPT ![s] = IdleSession]
    /\ UNCHANGED <<persons, patients, conditions, nextPatientId, calls, nextCallId, last>>

Next ==
    \/ \E s \in Sessions :
        \/ Begin(s)
        \/ CheckCondition(s)
        \/ LookupEmail(s)
        \/ CreatePerson(s)
        \/ MergePerson(s)
        \/ GetPerson(s)
        \/ DuplicateGuard(s)
        \/ InsertPatient(s)
        \/ Respond(s)
    \/ UpdatePerson(FALSE)
    \/ UpdatePatient(FALSE)
    \/ DeletePatient(FALSE)

Spec == Init /\ [][Next]_vars

(* ----------------------------------------------------------------- claims *)

\* The outcome of create_patient_with_person(req) on the store as it is.
ByDetails(req) == create_patient_with_person(Store, req)

\* The outcome of create_patient_with_existing_person(req) on the store as it is.
ById(req) == create_patient_with_existing_person(Store, req)

\* The store has a person with this e-mail / a patient of this person.
EmailKnown(email) == \E p \in persons : p.email = email

OwnsPatient(person_id) == \E q \in patients : q.person_id = person_id

ConditionExists(req) == req.medical_condition_id \in DOMAIN conditions

\* The row the returning-patient merge is specified to leave: each of first
\* name, last name and phone is the supplied value when that is neither
\* None nor "", and the old value otherwise; nothing else changes.
SpecifiedMerge(p, req) ==
    [p EXCEPT
       !.first_name = IF req.first_name # None /\ req.first_name # ""
                      THEN req.first_name ELSE @,
       !.last_name = IF req.last_name # None /\ req.last_name # ""
                     THEN req.last_name ELSE @,
       !.phone = IF req.phone # None /\ req.phone # "" THEN req.phone ELSE @]

\* The person a creation call resolved, NoPerson when it resolved none: the
\* row its lookup returned (by e-mail once the condition check has passed,
\* by id as the first thing create_patient_with_existing_person does).
ResolvedByDetails(req) ==
    IF ByDetails(req).loc.found = "found"
    THEN get_person_by_email(Store, req.email) ELSE NoPerson

ResolvedById(req) ==
    IF ById(req).loc.found = "found"
    THEN get_person(Store, req.person_id) ELSE NoPerson

\* C1: in every state of any interleaving of the store round trips of
\* concurrent create_patient_with_person and
\* create_patient_with_existing_person calls with update_patient and
\* delete_patient, no two Patient rows have the same person_id.
C1_PersonIdUniqueAcrossPatients ==
    \A q1 \in patients, q2 \in patients :
        q1.person_id = q2.person_id => q1 = q2

\* C1 case: a call passed its duplicate guard, lost the race to another
\* call for the same person, and its insert was refused by the store.
C1_Witness ==
    \E s \in Sessions :
        /\ sess[s].pc = "done"
        /\ sess[s].result = "DatabaseError"
        /\ sess[s].found = "found"
        /\ OwnsPatient(sess[s].person.person_id)

\* C2: after any sequence of patient creations and update_person calls, no
\* two Person rows have the same email.
C2_EmailUniqueAcrossPersons ==
    \A p1 \in persons, p2 \in persons : p1.email = p2.email => p1 = p2

\* C2 case: update_person asked to move a person to the e-mail of another
\* person, and the store refused.
C2_Witness ==
    /\ last.op = "update_person"
    /\ last.result = "IntegrityError"
    /\ Cardinality(persons) = 2

\* C3: create_patient_with_person with an existing medical condition and an
\* e-mail no Person has succeeds, adds exactly one Person row (with the
\* request's e-mail) and exactly one Patient row, and the new Patient's
\* person_id is the new Person's id.
C3_NewEmailCreatesPersonAndPatient ==
    \A req \in PatientCreate :
        (ConditionExists(req) /\ ~EmailKnown(req.email)) =>
            LET r == ByDetails(req) IN
            /\ r.loc.result = "ok"
            /\ persons \subseteq r.db.persons
            /\ patients \subseteq r.db.patients
            /\ Cardinality(r.db.persons) = Cardinality(persons) + 1
            /\ Cardinality(r.db.patients) = Cardinality(patients) + 1
            /\ \E p \in r.db.persons \ persons, q \in r.db.patients \ patients :
                 /\ p.email = req.email
                 /\ q.person_id = p.person_id
                 /\ \A o \in persons : o.person_id # p.person_id
                 /\ \A o \in patients : o.patient_id # q.patient_id

\* C3 case: a call created the Person and the Patient while another Person
\* was on file.
C3_Witness ==
    /\ last.op = "create_patient_with_person"
    /\ last.result = "ok"
    /\ last.found = "missed"
    /\ Cardinality(persons) = 2

\* C4: a create_patient_with_person call whose e-mail lookup returns a
\* Person who owns no Patient (the returning-patient path) succeeds, adds
\* no Person row, leaves that Person with the specified merge (e-mail and
\* every other Person unchanged) and adds exactly one Patient row, linked
\* to that Person.
C4_ReturningPatientMerges ==
    \A req \in PatientCreate :
        (ResolvedByDetails(req) # NoPerson
           /\ ~OwnsPatient(ResolvedByDetails(req).person_id)) =>
            LET r == ByDetails(req)
                p == ResolvedByDetails(req)
            IN  /\ r.loc.result = "ok"
                /\ r.db.persons = (persons \ {p}) \cup {SpecifiedMerge(p, req)}
                /\ SpecifiedMerge(p, req).email = p.email
                /\ Cardinality(r.db.persons) = Cardinality(persons)
                /\ patients \subseteq r.db.patients
                /\ Cardinality(r.db.patients) = Cardinality(patients) + 1
                /\ \A q \in r.db.patients \ patients : q.person_id = p.person_id

\* C4 case: a call took the returning-patient path, changed the Person and
\* created the Patient.
C4_Witness ==
    /\ last.op = "create_patient_with_person"
    /\ last.result = "ok"
    /\ last.found = "found"
    /\ last.personWritten

C6_MissingConditionMutatesNothing ==
    \A req \in PatientCreate :
        ~ConditionExists(req) =>
            LET r == ByDetails(req) IN
            /\ r.loc.result = "MedicalConditionNotFoundError"
            /\ r.db.persons = persons
            /\ r.db.patients = patients

\* C6 case: a call ended in ConditionNotFound while every e-mail a request
\* can carry was the e-mail of a Person on file.
C6_Witness ==
    /\ last.op = "create_patient_with_person"
    /\ last.result = "MedicalConditionNotFoundError"
    /\ \A e \in Emails : EmailKnown(e)

\* C7 as stated: when two concurrent create_patient_with_person calls for
\* the same e-mail have both missed the e-mail lookup and both ended, one
\* was answered 201 and the other 409, and the store holds exactly one
\* Person with that e-mail and exactly one Patient for it.
C7_AsStated ==
    \A s \in Sessions, t \in Sessions :
        (/\ s # t
         /\ sess[s].pc = "done" /\ sess[t].pc = "done"
         /\ sess[s].op = "create_patient_with_person"
         /\ sess[t].op = "create_patient_with_person"
         /\ sess[s].req.email = sess[t].req.email
         /\ sess[s].found = "missed" /\ sess[t].found = "missed"
         /\ sess[s].result = "ok") =>
            /\ RouteStatus(sess[s].result) = 201
            /\ RouteStatus(sess[t].result) = 409
            /\ Cardinality({p \in persons : p.email = sess[s].req.email}) = 1
            /\ Cardinality({q \in patients :
                               q.person_id = sess[s].person.person_id}) = 1

\* C8 as stated: whenever create_patient_with_person ends in a failure, the
\* Person table is exactly as it was before the call.
C8_AsStated ==
    \A req \in PatientCreate :
        ByDetails(req).loc.result # "ok" => ByDetails(req).db.persons = persons

\* C9: a create_patient_with_person call whose e-mail lookup returns a
\* Person who owns a Patient fails with DuplicatePatient, leaves the
\* Patient rows as they were, and leaves that Person with the specified
\* merge of the supplied values: the merge was committed before the failure
\* and the rollback does not undo it.
C9_MergeSurvivesDuplicate ==
    \A req \in PatientCreate :
        (ResolvedByDetails(req) # NoPerson
           /\ OwnsPatient(ResolvedByDetails(req).person_id)) =>
            LET r == ByDetails(req)
                p == ResolvedByDetails(req)
            IN  /\ r.loc.result = "DuplicatePatientError"
                /\ r.db.patients = patients
                /\ r.db.persons = (persons \ {p}) \cup {SpecifiedMerge(p, req)}

\* C9 case: a call ended in DuplicatePatient and left the Person changed.
C9_Witness ==
    /\ last.op = "create_patient_with_person"
    /\ last.result = "DuplicatePatientError"
    /\ last.personWritten

\* One call's effect r: a success added exactly one Patient row, changed no
\* other Patient row and inserted or updated at most one Person row; a
\* failure added no Patient row.
OneCallEffect(r) ==
    IF r.loc.result = "ok"
    THEN /\ patients \subseteq r.db.patients
         /\ Cardinality(r.db.patients) = Cardinality(patients) + 1
         /\ Cardinality(r.db.persons \ persons) <= 1
         /\ Cardinality(persons \ r.db.persons) <= 1
         /\ Cardinality(r.db.persons) - Cardinality(persons) \in {0, 1}
    ELSE r.db.patients = patients

\* C10: for both creation operations, a successful call inserts exactly one
\* Patient row and inserts or updates at most one Person row, and a call
\* that ends in any failure inserts no Patient row.
C10_OnePatientPerSuccess ==
    /\ \A req \in PatientCreate : OneCallEffect(ByDetails(req))
    /\ \A req \in PatientCreateWithPersonId : OneCallEffect(ById(req))

\* C10 case: a call by person id succeeded, with another Patient on file.
C10_Witness ==
    /\ last.op = "create_patient_with_existing_person"
    /\ last.result = "ok"
    /\ Cardinality(patients) = 2

\* C11: create_patient_with_existing_person fails with PersonNotFound when
\* its person id matches no Person row, and in every outcome it leaves the
\* Person rows exactly as they were.
C11_ExistingPersonNeverWritten ==
    \A req \in PatientCreateWithPersonId :
        LET r == ById(req) IN
        /\ get_person(Store, req.person_id) = NoPerson =>
               r.loc.result = "PersonNotFoundError"
        /\ r.db.persons = persons

\* C11 case: a call by person id ended in PersonNotFound while Person rows
\* were on file.
C11_Witness ==
    /\ last.op = "create_patient_with_existing_person"
    /\ last.result = "PersonNotFoundError"
    /\ last.found = "missed"
    /\ persons # {}

\* C12 as stated: create_patient_with_existing_person with a
\* medical_condition_id that matches no row fails with ConditionNotFound,
\* whether or not its person id matches a Person.
C12_AsStated ==
    \A req \in PatientCreateWithPersonId :
        ~ConditionExists(req) =>
            ById(req).loc.result = "MedicalConditionNotFoundError"

\* The status the error-handling policy gives each failure.
SpecifiedStatus(result) ==
    CASE result \in {"PersonNotFoundError", "PatientNotFoundError",
                     "MedicalConditionNotFoundError"} -> 404
      [] result = "DuplicatePatientError" -> 409
      [] result = "DatabaseError" -> 500

Contains(text, part) == \E i \in DOMAIN text : text[i] = part

\* The answer of route to the failure result raised by operation op has the
\* specified status, and for DatabaseError a detail that is the route's
\* fixed text and holds neither the driver's text nor the exception's.
AnsweredAsSpecified(route, op, result) ==
    /\ RouteStatus(result) = SpecifiedStatus(result)
    /\ result = "DatabaseError" =>
          /\ ~Contains(RouteDetail(route, op, result), DriverText)
          /\ RouteDetail(route, op, result) # ExceptionText(op, result)

Malformed(raw) ==
    \/ raw.person.first_name = ""
    \/ raw.person.email = <<"invalid-email">>
    \/ raw.medical_condition_id = "invalid-uuid"

C15_AsStated ==
    \A raw \in RawPatientCreate :
        Malformed(raw) => create_patient(Store, raw).status = 400

\* The outcome of a mutating operation that met a constraint violation is
\* as specified: DatabaseError, with the stored rows as before the call.
ViolationReported(r) ==
    r.result \in {"IntegrityError", "DatabaseError"} =>
        r.result = "DatabaseError" /\ r.db = Store

\* C16 as stated: whenever the store refuses the commit of a mutating
\* operation (update_person, update_patient, delete_patient,
\* create_medical_condition, update_medical_condition, create_call_history,
\* update_call_history), the operation reports DatabaseError and the stored
\* rows are as before the call.
C16_AsStated ==
    /\ \A id \in PersonIds, upd \in PersonUpdates :
         ViolationReported(update_person(Store, id, upd))
    /\ \A id \in PatientIds, upd \in PatientUpdates :
         ViolationReported(update_patient(Store, id, upd))
    /\ \A id \in PatientIds : ViolationReported(delete_patient(Store, id))
    /\ \A req \in MedicalConditionCreate :
         ViolationReported(create_medical_condition(Store, req))
    /\ \A id \in ConditionIds, upd \in MedicalConditionUpdates :
         ViolationReported(update_medical_condition(Store, id, upd))
    /\ \A req \in CallHistoryCreate :
         ViolationReported(create_call_history(Store, req))
    /\ \A id \in CallIds, upd \in CallHistoryUpdates :
         ViolationReported(update_call_history(Store, id, upd))

\* The row a partial update is specified to leave: each field the request
\* names takes the supplied value (an explicit null included), every other
\* field keeps its value.
SpecifiedUpdate(cur, upd) ==
    [f \in DOMAIN cur |-> IF f \in upd.fields THEN upd[f] ELSE cur[f]]

\* The outcome r of updating row cur of the set before: the store accepted
\* it and the row is as specified, or refused it and nothing changed; no
\* other row changes, and an update naming no field changes nothing.
UpdatedAsSpecified(r, before, after, cur, upd) ==
    /\ r.result = "ok" => after = (before \ {cur}) \cup {SpecifiedUpdate(cur, upd)}
    /\ r.result # "ok" => after = before
    /\ upd.fields = {} => r.result = "ok" /\ after = before

C18_SoftDeleteKeepsRow ==
    /\ \A id \in PersonIds :
         LET r == delete_person(Store, id)
             cur == get_person(Store, id)
         IN  IF cur = NoPerson
             THEN r.result = "False" /\ r.db = Store
             ELSE /\ r.result = "True"
                  /\ get_person(r.db, id) = [cur EXCEPT !.is_active = FALSE]
                  /\ r.db.persons \ {get_person(r.db, id)} = persons \ {cur}
                  /\ r.db = [Store EXCEPT !.persons = r.db.persons]
    /\ \A id \in ConditionIds :
         LET r == delete_medical_condition(Store, id) IN
         IF id \notin DOMAIN conditions
         THEN r.result = "False" /\ r.db = Store
         ELSE /\ r.result = "True"
              /\ get_medical_condition(r.db, id)
              /\ r.db.conditions =
                     [conditions EXCEPT ![id] = [@ EXCEPT !.is_active = FALSE]]
              /\ r.db = [Store EXCEPT !.conditions = r.db.conditions]

\* C18 case: delete_person has deactivated a Person who owns a Patient, and
\* the row is on file.
C18_Witness ==
    \E p \in persons : ~p.is_active /\ OwnsPatient(p.person_id)

\* C19 as stated: delete_patient and delete_call_history on an existing id
\* (for a Patient, with or without call-history rows) remove the row and
\* return True, after which get-by-id finds nothing; on a missing id they
\* return False and change nothing.
C19_AsStated ==
    /\ \A id \in PatientIds :
         LET r == delete_patient(Store, id) IN
         IF ~get_patient(Store, id)
         THEN r.result = "False" /\ r.db = Store
         ELSE /\ r.result = "True"
              /\ ~get_patient(r.db, id)
              /\ r.db.patients = {q \in patients : q.patient_id # id}
    /\ \A id \in CallIds :
         LET r == delete_call_history(Store, id) IN
         IF ~get_call_history(Store, id)
         THEN r.result = "False" /\ r.db = Store
         ELSE /\ r.result = "True"
              /\ ~get_call_history(r.db, id)
              /\ r.db.calls = {c \in calls : c.call_id # id}

\* C20: a create_call_history that returns adds exactly one CallHistory row,
\* with an id no row had, for the request's patient, and leaves every
\* other row as it was; one that fails changes nothing;
\* update_call_history and delete_call_history leave every row with
\* another call id, and every other table, as it was.
C20_CallRowsStandAlone ==
    /\ \A req \in UndatedCalls :
         LET r == create_call_history(Store, req) IN
         IF r.result = "ok"
         THEN /\ calls \subseteq r.db.calls
              /\ Cardinality(r.db.calls) = Cardinality(calls) + 1
              /\ \A c \in r.db.calls \ calls :
                    /\ c.patient_id = req.patient_id
                    /\ \A o \in calls : o.call_id # c.call_id
              /\ [r.db EXCEPT !.calls = calls, !.nextCallId = nextCallId] = Store
         ELSE r.db = Store
    /\ \A id \in CallIds, upd \in CallHistoryUpdates :
         LET r == update_call_history(Store, id, upd) IN
         /\ {c \in r.db.calls : c.call_id # id} = {c \in calls : c.call_id # id}
         /\ Cardinality(r.db.calls) = Cardinality(calls)
         /\ r.db = [Store EXCEPT !.calls = r.db.calls]
    /\ \A id \in CallIds :
         LET r == delete_call_history(Store, id) IN
         /\ r.db.calls = {c \in calls : c.call_id # id}
         /\ r.db = [Store EXCEPT !.calls = r.db.calls]

\* C20 case: create_call_history has added a second row for a patient that
\* had one.
C20_Witness ==
    \E c \in calls, d \in calls :
        c.call_id # d.call_id /\ c.patient_id = d.patient_id

(* ---------------------------------------------------------- listed pages *)

\* A status filter that is supplied: neither absent nor empty.
Supplied(status) == status \notin {None, ""}

\* The Patients that match every supplied filter.
Matching(status, medical_condition_id) ==
    {q \in patients :
        /\ Supplied(status) => q.status = status
        /\ medical_condition_id \in ConditionIds =>
               q.medical_condition_id = medical_condition_id}

\* The items a page holds when the first skip of n rows are skipped and at
\* most limit are kept.
PageLength(n, skip, limit) ==
    IF n <= skip THEN 0 ELSE IF n - skip < limit THEN n - skip ELSE limit

PagesFor(total, limit) ==
    CHOOSE n \in 0..total :
        n * limit >= total /\ \A k \in 0..total : k * limit >= total => n <= k

\* C22: for skip >= 0 and limit in 1..1000, every answer of GET /patients
\* reports total = the number of Patients matching the filters, page_size =
\* limit, total_pages = the ceiling of total/limit and page = the floor of
\* skip/limit plus one; with no Patient rows it reports total = 0, no items
\* and total_pages = 0.
C22_EnvelopeOfPage ==
    \A skip \in QuerySkips, limit \in QueryLimits, status \in StatusFilters,
       medical_condition_id \in ConditionFilters :
        (skip >= 0 /\ limit >= 1 /\ limit <= 1000) =>
            \A r \in read_patients(Store, skip, limit, status, medical_condition_id) :
                /\ r.status = 200
                /\ r.total = Cardinality(Matching(status, medical_condition_id))
                /\ r.page_size = limit
                /\ r.total_pages = PagesFor(r.total, limit)
                /\ (r.page - 1) * limit <= skip /\ skip < r.page * limit
                /\ patients = {} =>
                       r.total = 0 /\ r.items = <<>> /\ r.total_pages = 0

\* Two Patients listed one per page from the second on, and a filter that
\* leaves one Patient on a page of two.
C22_Witness ==
    /\ \E r \in read_patients(Store, 1, 1, None, NoId) :
           r.total = 2 /\ r.total_pages = 2 /\ r.page = 2 /\ Len(r.items) = 1
    /\ \E r \in read_patients(Store, 0, 2, "inactive", NoId) :
           r.total = 1 /\ r.total_pages = 1 /\ r.page = 1

\* Call date descending with the records that have no call date last: no
\* dated record after an undated one, no later date after an earlier one.
LatestFirstUndatedLast(rows) ==
    \A i, j \in DOMAIN rows :
        i < j => \/ rows[j].call_date = NoDate
                 \/ /\ rows[i].call_date # NoDate
                    /\ rows[i].call_date >= rows[j].call_date

\* C23: every outcome of get_call_histories_by_patient is the window of
\* skip and limit over a sequence that holds each call of the given
\* patient once, and no other call, ordered by call date descending with
\* the records that have no call date last.
C23_PatientCallsLatestFirst ==
    \A patient_id \in PatientIds, skip \in Skips, limit \in Limits :
        \A r \in get_call_histories_by_patient(Store, patient_id, skip, limit) :
            /\ \A i \in DOMAIN r.calls : r.calls[i].patient_id = patient_id
            /\ \E all \in Orderings({c \in calls : c.patient_id = patient_id}) :
                   /\ LatestFirstUndatedLast(all)
                   /\ Len(r.calls) = PageLength(Len(all), skip, limit)
                   /\ \A i \in DOMAIN r.calls : r.calls[i] = all[skip + i]

\* A patient with an undated call made before a dated one: the list of two
\* shows the dated call first, and the second page of one shows the undated
\* call.
C23_Witness ==
    \E patient_id \in PatientIds :
        /\ \E c, d \in calls :
               /\ c.call_id < d.call_id
               /\ c.call_date = NoDate
               /\ d.call_date # NoDate
        /\ \E r \in get_call_histories_by_patient(Store, patient_id, 0, 2) :
               /\ Len(r.calls) = 2
               /\ r.calls[1].call_date # NoDate
               /\ r.calls[2].call_date = NoDate
        /\ \E r \in get_call_histories_by_patient(Store, patient_id, 1, 1) :
               Len(r.calls) = 1 /\ r.calls[1].call_date = NoDate

(* ------------------------------------------------------ calls and patients *)

\* The request names a Patient row.
PatientExists(patient_id) == \E q \in patients : q.patient_id = patient_id

\* The request names no navigator, or a Person row.
NavigatorAcceptable(pn_id) ==
    pn_id = NoId \/ \E p \in persons : p.person_id = pn_id

\* The call left exactly one more CallHistory row, for the given patient.
OneRowFor(r, patient_id) ==
    /\ calls \subseteq r.db.calls
    /\ Cardinality(r.db.calls \ calls) = 1
    /\ \A c \in r.db.calls \ calls : c.patient_id = patient_id

\* C24 as stated: create_call_history for a patient_id that matches no
\* Patient fails with PatientNotFound (404) and creates no row; for an
\* existing patient_id it creates exactly one CallHistory row referencing
\* that patient.
C24_AsStated ==
    \A req \in CallHistoryCreate :
        LET r == create_call_history(Store, req) IN
        IF PatientExists(req.patient_id)
        THEN OneRowFor(r, req.patient_id)
        ELSE /\ r.result = "PatientNotFoundError"
             /\ RouteStatus(r.result) = 404
             /\ r.db.calls = calls

\* C24: create_call_history for a patient_id that matches no Patient fails
\* with PatientNotFound (404) and creates no row; for an existing patient
\* and a navigator that is absent or a Person it creates exactly one
\* CallHistory row referencing that patient; for an existing patient and a
\* navigator id that matches no Person it fails with DatabaseError (500)
\* and creates no row.
C24_CallNeedsPatientAndNavigator ==
    \A req \in CallHistoryCreate :
        LET r == create_call_history(Store, req) IN
        IF ~PatientExists(req.patient_id)
        THEN /\ r.result = "PatientNotFoundError"
             /\ RouteStatus(r.result) = 404
             /\ r.db.calls = calls
        ELSE IF NavigatorAcceptable(req.pn_id)
        THEN r.result = "ok" /\ OneRowFor(r, req.patient_id)
        ELSE /\ r.result = "DatabaseError"
             /\ RouteStatus(r.result) = 500
             /\ r.db.calls = calls

\* A call was recorded for a Patient, and some patient id matches no row.
C24_Witness ==
    /\ \E c \in calls : PatientExists(c.patient_id)
    /\ \E req \in CallHistoryCreate :
           /\ ~PatientExists(req.patient_id)
           /\ create_call_history(Store, req).result = "PatientNotFoundError"
    /\ \E req \in CallHistoryCreate :
           /\ PatientExists(req.patient_id)
           /\ create_call_history(Store, req).result = "ok"

\* C25: in every reachable state each CallHistory row refers to a Patient
\* row, and it still does after delete_patient is called on any patient,
\* one with call-history records included.
C25_CallsReferToPatients ==
    /\ \A c \in calls : PatientExists(c.patient_id)
    /\ \A id \in PatientIds :
           LET r == delete_patient(Store, id) IN
           \A c \in r.db.calls : \E q \in r.db.patients : q.patient_id = c.patient_id

\* A Patient with a call-history record, on which delete_patient has
\* nothing to return, next to a Patient without one, which it removes.
C25_Witness ==
    /\ \E c \in calls :
           /\ PatientExists(c.patient_id)
           /\ delete_patient(Store, c.patient_id).result = "IntegrityError"
    /\ \E q \in patients : delete_patient(Store, q.patient_id).result = "True"

(* ------------------------------------------------- the rows of the patients *)

\* The Patient refers to a Person row and to a MedicalCondition row.
RefersToRows(db, q) ==
    /\ \E p \in db.persons : p.person_id = q.person_id
    /\ q.medical_condition_id \in DOMAIN db.conditions

\* C26: after any sequence of creations, update_patient calls (with any
\* medical_condition_id, an explicit null included) and soft deletes, every
\* Patient's person_id refers to a Person row and its medical_condition_id
\* to a MedicalCondition row; and the same holds of the rows every further
\* update_patient, delete_person or delete_medical_condition leaves.
C26_PatientsReferToRows ==
    /\ \A q \in patients : RefersToRows(Store, q)
    /\ \A id \in PatientIds, upd \in PatientUpdates :
           LET r == update_patient(Store, id, upd) IN
           \A q \in r.db.patients : RefersToRows(r.db, q)
    /\ \A id \in PersonIds :
           LET r == delete_person(Store, id) IN
           \A q \in r.db.patients : RefersToRows(r.db, q)
    /\ \A id \in ConditionIds :
           LET r == delete_medical_condition(Store, id) IN
           \A q \in r.db.patients : RefersToRows(r.db, q)

\* A Patient that update_patient has changed, whose Person and
\* MedicalCondition are both soft-deleted, and for which an update to a
\* null medical condition and one to an id that matches no row are open.
C26_Witness ==
    \E q \in patients :
        /\ q.status = "inactive"
        /\ \E p \in persons : p.person_id = q.person_id /\ ~p.is_active
        /\ ~conditions[q.medical_condition_id].is_active
        /\ \E upd \in PatientUpdates :
               /\ "medical_condition_id" \in upd.fields
               /\ upd.medical_condition_id = NoId
               /\ update_patient(Store, q.patient_id, upd).result = "IntegrityError"
        /\ \E upd \in PatientUpdates :
               /\ "medical_condition_id" \in upd.fields
               /\ upd.medical_condition_id \in ConditionIds \ DOMAIN conditions
               /\ update_patient(Store, q.patient_id, upd).result = "IntegrityError"

\* The patient ids with the person each belongs to.
Identities(rows) == {<<q.patient_id, q.person_id>> : q \in rows}

\* C27: whatever body PUT /patients/{id} is given, keys named person_id and
\* patient_id included, update_patient leaves every Patient's patient_id and
\* person_id as they were.
C27_UpdateKeepsIdentity ==
    \A id \in PatientIds, body \in PatientUpdateBodies :
        LET r == update_patient(Store, id, PatientUpdateOf(body)) IN
        /\ Identities(r.db.patients) = Identities(patients)
        /\ \A q \in patients : q.patient_id = id =>
               \E n \in r.db.patients :
                   /\ n.patient_id = id
                   /\ n.person_id = q.person_id

\* Two Patients, one of which a body that names the other's person and
\* patient id, and a status, has been applied to.
C27_Witness ==
    \E q, o \in patients, body \in PatientUpdateBodies :
        /\ q.patient_id # o.patient_id
        /\ q.status = "inactive"
        /\ body.keys = {"status", "person_id", "patient_id"}
        /\ body.person_id = o.person_id
        /\ body.patient_id = o.patient_id
        /\ update_patient(Store, q.patient_id, PatientUpdateOf(body)).result = "ok"

(* ------------------------------------------- patients that come back *)

\* C28: when delete_patient removes a person's Patient, a
\* create_patient_with_person that follows with that person's e-mail and an
\* existing medical condition returns on the returning-patient path: the
\* lookup finds the Person, no Person row is added and the Person keeps its
\* id and e-mail, and one Patient is inserted for that Person under a
\* patient_id that neither the removed Patient nor any other Patient had.
C28_DeletedPatientComesBack ==
    \A q \in patients :
        LET d == delete_patient(Store, q.patient_id) IN
        d.result = "True" =>
            \A req \in PatientCreate :
                (/\ \E p \in persons : p.person_id = q.person_id /\ p.email = req.email
                 /\ req.medical_condition_id \in DOMAIN conditions) =>
                    LET r == create_patient_with_person(d.db, req) IN
                    /\ r.loc.result = "ok"
                    /\ r.loc.found = "found"
                    /\ {<<p.person_id, p.email>> : p \in r.db.persons}
                           = {<<p.person_id, p.email>> : p \in persons}
                    /\ \E n \in r.db.patients :
                           /\ n.person_id = q.person_id
                           /\ n.patient_id \notin {o.patient_id : o \in patients}
                           /\ r.db.patients = (patients \ {q}) \cup {n}

\* The only Person's first Patient was removed, and the last call created
\* the second one for the Person it found by e-mail.
C28_Witness ==
    /\ last.op = "create_patient_with_person"
    /\ last.result = "ok"
    /\ last.found = "found"
    /\ Cardinality(persons) = 1
    /\ nextPatientId = 3
    /\ \E q \in patients : q.patient_id = 2

(* ------------------------------------------------- soft-deleted rows in use *)

\* The request names a MedicalCondition row whose active flag is false.
ConditionInactive(req) ==
    /\ req.medical_condition_id \in DOMAIN conditions
    /\ ~conditions[req.medical_condition_id].is_active

\* The call returned and left one more Patient, for the request's medical
\* condition.
CreatedFor(r, req) ==
    /\ r.loc.result = "ok"
    /\ patients \subseteq r.db.patients
    /\ Cardinality(r.db.patients \ patients) = 1
    /\ \A n \in r.db.patients \ patients :
           n.medical_condition_id = req.medical_condition_id

\* C29: a creation request, by person details or by person id, that names
\* a MedicalCondition with active = false passes the condition check: it
\* never ends in ConditionNotFound, and it creates the Patient whenever the
\* person it resolves to exists and owns no Patient.
C29_InactiveConditionAccepted ==
    /\ \A req \in PatientCreate :
           ConditionInactive(req) =>
               LET r == ByDetails(req) IN
               /\ r.loc.result # "MedicalConditionNotFoundError"
               /\ (\A p \in persons : p.email = req.email => ~OwnsPatient(p.person_id))
                      => CreatedFor(r, req)
    /\ \A req \in PatientCreateWithPersonId :
           ConditionInactive(req) =>
               LET r == ById(req) IN
               /\ (\E p \in persons : p.person_id = req.person_id)
                      => r.loc.result # "MedicalConditionNotFoundError"
               /\ (/\ \E p \in persons : p.person_id = req.person_id
                   /\ ~OwnsPatient(req.person_id))
                      => CreatedFor(r, req)

\* A soft-deleted MedicalCondition and a Person without a Patient: both
\* creation operations return a Patient for that condition.
C29_Witness ==
    /\ \E req \in PatientCreate :
           /\ ConditionInactive(req)
           /\ EmailKnown(req.email)
           /\ CreatedFor(ByDetails(req), req)
    /\ \E req \in PatientCreateWithPersonId :
           /\ ConditionInactive(req)
           /\ CreatedFor(ById(req), req)
    /\ \E q \in patients : ~conditions[q.medical_condition_id].is_active

\* Every Person whose active flag is false in the store has it false in db.
StillInactive(db) ==
    \A p \in persons : ~p.is_active =>
        \A n \in db.persons : n.person_id = p.person_id => ~n.is_active

\* The update names is_active and gives it the value true.
Reactivates(upd) == "is_active" \in upd.fields /\ upd.is_active

\* C30: a create_patient_with_person whose e-mail matches a soft-deleted
\* Person that owns no Patient, for an existing medical condition, finds
\* that Person, creates the Patient for it and leaves its active flag
\* false; and no operation sets the active flag of a soft-deleted Person
\* back to true, except update_person with is_active = true in the update.
C30_SoftDeletedPersonStaysInactive ==
    /\ \A req \in PatientCreate, p \in persons :
           (/\ p.email = req.email
            /\ ~p.is_active
            /\ ~OwnsPatient(p.person_id)
            /\ ConditionExists(req)) =>
               LET r == ByDetails(req) IN
               /\ r.loc.result = "ok"
               /\ r.loc.found = "found"
               /\ Cardinality(r.db.persons) = Cardinality(persons)
               /\ \E n \in r.db.patients \ patients : n.person_id = p.person_id
               /\ \E n \in r.db.persons : n.person_id = p.person_id /\ ~n.is_active
    /\ \A req \in PatientCreate : StillInactive(ByDetails(req).db)
    /\ \A req \in PatientCreateWithPersonId : StillInactive(ById(req).db)
    /\ \A req \in PersonCreate :
           StillInactive(create_person(Store, [IdleSession EXCEPT !.req = req]).db)
    /\ \A id \in PersonIds, upd \in PersonUpdates :
           LET r == update_person(Store, id, upd) IN
           IF Reactivates(upd)
           THEN r.result = "ok" =>
                    \A n \in r.db.persons : n.person_id = id => n.is_active
           ELSE StillInactive(r.db)
    /\ \A id \in PersonIds : StillInactive(delete_person(Store, id).db)
    /\ \A id \in PatientIds, upd \in PatientUpdates :
           StillInactive(update_patient(Store, id, upd).db)
    /\ \A id \in PatientIds : StillInactive(delete_patient(Store, id).db)
    /\ \A req \in MedicalConditionCreate :
           StillInactive(create_medical_condition(Store, req).db)
    /\ \A id \in ConditionIds, upd \in MedicalConditionUpdates :
           StillInactive(update_medical_condition(Store, id, upd).db)
    /\ \A id \in ConditionIds : StillInactive(delete_medical_condition(Store, id).db)
    /\ \A req \in CallHistoryCreate : StillInactive(create_call_history(Store, req).db)
    /\ \A id \in CallIds, upd \in CallHistoryUpdates :
           StillInactive(update_call_history(Store, id, upd).db)
    /\ \A id \in CallIds : StillInactive(delete_call_history(Store, id).db)

\* A soft-deleted Person without a Patient whose e-mail a request carries
\* with another name and a phone: the call merges them and creates the
\* Patient; and a soft-deleted Person that owns a Patient.
C30_Witness ==
    /\ \E req \in PatientCreate, p \in persons :
           /\ p.email = req.email
           /\ ~p.is_active
           /\ req.first_name # p.first_name
           /\ req.phone = "555"
           /\ ByDetails(req).loc.result = "ok"
           /\ \E n \in ByDetails(req).db.persons :
                  /\ n.person_id = p.person_id
                  /\ n.first_name = req.first_name
                  /\ ~n.is_active
    /\ \E p \in persons : ~p.is_active /\ OwnsPatient(p.person_id)
====
